---- MODULE Spec2Model ----
(***************************************************************************)
(* Model of the Digital Wellness Analyzer: the rule-based scoring engine   *)
(* (analyzer.py), the insight generator's choice of path and opening       *)
(* sentence (llm_insights.py), the driver script (test_analyzer.py) and    *)
(* the /analyze and /health endpoints (app.py).                            *)
(*                                                                         *)
(* Numbers.  Sub-scores are integers (points).  The weighted overall score *)
(* is kept in hundredths of a point (the weights are 30,15,25,20,10        *)
(* hundredths), and every number that the engine reports through           *)
(* round(x, 1) is kept in tenths of a point, so 79.8 is 798 and 100 is     *)
(* 1000.  Percentages and averages are compared by cross-multiplication.   *)
(*                                                                         *)
(* Python dicts are functions whose DOMAIN is the set of keys present;     *)
(* d.get(k, default) is Get(d, k, default).  Lists are sequences.          *)
(* Of the result, "patterns" and metrics.total_screen_time_hours are not   *)
(* modelled; the two counts of "metrics" are app_count and session_count.  *)
(***************************************************************************)
EXTENDS Integers, Sequences, FiniteSets, TLC

VARIABLES data, max_score, use_mock, result, insight, pc, body, status, invoked

vars == <<data, max_score, use_mock, result, insight, pc, body, status, invoked>>

----------------------------------------------------------------------------
(* Bounds of the input families *)

MaxApps == 2
MaxSessions == 2
MaxGapSessions == 3

----------------------------------------------------------------------------
(* Generic helpers *)

Get(d, k, default) == IF k \in DOMAIN d THEN d[k] ELSE default

SeqsUpTo(S, n) == UNION {[1..k -> S] : k \in 0..n}

Max2(a, b) == IF a >= b THEN a ELSE b

Min2(a, b) == IF a <= b THEN a ELSE b

RECURSIVE SumSeq(_)
SumSeq(s) == IF s = <<>> THEN 0 ELSE Head(s) + SumSeq(Tail(s))

(* variant: round(x) to a whole number instead of round(x, 1) *)
Round1Whole(h) == 10 * ((h + 50) \div 100)

(* round(x, 1) of a value given in hundredths, result in tenths: Python    *)
(* rounds the exactly representable ties x.x5 half to even.                *)
Round1(h) ==
    LET q == h \div 10
        r == h % 10
    IN  IF r > 5 \/ (r = 5 /\ q % 2 = 1) THEN q + 1 ELSE q

----------------------------------------------------------------------------
(* analyzer.py: the five sub-scorers *)

(* variant: the scores of the 10 h and 12 h steps exchanged *)
_score_screen_time_swapped(minutes) ==
    IF minutes <= 4 * 60 THEN 100
    ELSE IF minutes <= 6 * 60 THEN 85
    ELSE IF minutes <= 8 * 60 THEN 70
    ELSE IF minutes <= 10 * 60 THEN 30
    ELSE IF minutes <= 12 * 60 THEN 50
    ELSE 10

_score_screen_time(minutes) ==
    IF minutes <= 4 * 60 THEN 100
    ELSE IF minutes <= 6 * 60 THEN 85
    ELSE IF minutes <= 8 * 60 THEN 70
    ELSE IF minutes <= 10 * 60 THEN 50
    ELSE IF minutes <= 12 * 60 THEN 30
    ELSE 10

_score_app_diversity(apps) ==
    IF apps = <<>> THEN 50
    ELSE LET count == Len(apps)
         IN  IF 4 <= count /\ count <= 8 THEN 100
             ELSE IF 2 <= count /\ count <= 10 THEN 80
             ELSE IF count = 1 THEN 40
             ELSE 60

SessionDuration(s) ==
    Get(s, "minutes", (Get(s, "end_hour", 0) - Get(s, "start_hour", 0)) * 60)

IsLateNight(s) ==
    LET start == Get(s, "start_hour", 0)
        end == Get(s, "end_hour", 0)
    IN  start >= 23 \/ end >= 23 \/ start <= 2 \/ end <= 2

IsEarlyMorning(s) ==
    LET start == Get(s, "start_hour", 0)
        end == Get(s, "end_hour", 0)
    IN  (5 <= start /\ start <= 7) \/ (5 <= end /\ end <= 7)

(* the for loop of _score_usage_timing: <<late_night, early_morning>> *)
RECURSIVE TimingLoop(_, _, _)
TimingLoop(sessions, late_night, early_morning) ==
    IF sessions = <<>> THEN <<late_night, early_morning>>
    ELSE LET s == Head(sessions)
             duration == SessionDuration(s)
         IN  TimingLoop(Tail(sessions),
                        IF IsLateNight(s) THEN late_night + duration ELSE late_night,
                        IF IsEarlyMorning(s) THEN early_morning + duration ELSE early_morning)

(* variant: the heaviest late-night penalty is 50 instead of 40 *)
LateNightPenaltyHeavy(late_night) ==
    IF late_night > 120 THEN 50
    ELSE IF late_night > 60 THEN 25
    ELSE IF late_night > 30 THEN 15
    ELSE 0

LateNightPenalty(late_night) ==
    IF late_night > 120 THEN 40
    ELSE IF late_night > 60 THEN 25
    ELSE IF late_night > 30 THEN 15
    ELSE 0

_score_usage_timing(sessions) ==
    IF sessions = <<>> THEN 50
    ELSE LET acc == TimingLoop(sessions, 0, 0)
             score1 == 100 - LateNightPenalty(acc[1])
             score2 == IF acc[2] > 60 THEN score1 - 10 ELSE score1
         IN  Max2(0, score2)

(* the loop that builds category_minutes: a dict category -> minutes *)
RECURSIVE CategoryMinutes(_, _)
CategoryMinutes(apps, category_minutes) ==
    IF apps = <<>> THEN category_minutes
    ELSE LET app == Head(apps)
             cat == Get(app, "category", "other")
             mins == Get(app, "minutes", 0)
             upd == [c \in DOMAIN category_minutes \cup {cat} |->
                        IF c = cat THEN Get(category_minutes, cat, 0) + mins
                        ELSE category_minutes[c]]
         IN  CategoryMinutes(Tail(apps), upd)

EmptyDict == [k \in {} |-> 0]

RECURSIVE AppMinutesTotal(_)
AppMinutesTotal(apps) ==
    IF apps = <<>> THEN 0
    ELSE Get(Head(apps), "minutes", 0) + AppMinutesTotal(Tail(apps))

(* variant: the floor is applied, the ceiling is not *)
BalanceClampNoCeiling(score) == Max2(0, score)

BalanceClamp(score) == Max2(0, Min2(100, score))

_score_category_balance(apps) ==
    IF apps = <<>> THEN 50
    ELSE LET category_minutes == CategoryMinutes(apps, EmptyDict)
             total == AppMinutesTotal(apps)
         IN  IF total = 0 THEN 50
             ELSE LET Over(c, pct) == category_minutes[c] * 100 > pct * total
                      s0 == 100
                      s1 == IF \E c \in DOMAIN category_minutes : Over(c, 70) THEN s0 - 30
                            ELSE IF \E c \in DOMAIN category_minutes : Over(c, 60) THEN s0 - 15
                            ELSE s0
                      productivity == Get(category_minutes, "productivity", 0)
                      s2 == IF 30 * total <= productivity * 100
                               /\ productivity * 100 <= 60 * total
                            THEN s1 + 10 ELSE s1
                      social == Get(category_minutes, "social", 0)
                      s3 == IF social * 100 > 40 * total THEN s2 - 20
                            ELSE IF social * 100 > 30 * total THEN s2 - 10
                            ELSE s2
                  IN  BalanceClamp(s3)

(* sorted(sessions, key=start_hour): a stable sort into a new list *)
RECURSIVE InsertByStart(_, _)
InsertByStart(x, acc) ==
    IF acc = <<>> THEN <<x>>
    ELSE IF Get(Head(acc), "start_hour", 0) > Get(x, "start_hour", 0)
         THEN <<x>> \o acc
         ELSE <<Head(acc)>> \o InsertByStart(x, Tail(acc))

RECURSIVE SortedFrom(_, _)
SortedFrom(sessions, acc) ==
    IF sessions = <<>> THEN acc
    ELSE SortedFrom(Tail(sessions), InsertByStart(Head(sessions), acc))

sorted_sessions(sessions) == SortedFrom(sessions, <<>>)

(* the loop collecting the positive gaps between adjacent sorted sessions *)
RECURSIVE BreaksLoop(_, _, _)
BreaksLoop(ss, i, breaks) ==
    IF i > Len(ss) - 1 THEN breaks
    ELSE LET end_current == Get(ss[i], "end_hour", 0)
             start_next == Get(ss[i + 1], "start_hour", 0)
             duration == start_next - end_current
         IN  BreaksLoop(ss, i + 1,
                        IF duration > 0 THEN Append(breaks, duration) ELSE breaks)

(* variant: the wide band [0.5,3] is tested before the band [1,2] *)
BreakBandsWideFirst(sum, n) ==
    IF n <= 2 * sum /\ sum <= 3 * n THEN 85
    ELSE IF n <= sum /\ sum <= 2 * n THEN 100
    ELSE IF 2 * sum < n THEN 50
    ELSE 70

(* the band ladder on avg_break = sum / n *)
BreakBands(sum, n) ==
    IF n <= sum /\ sum <= 2 * n THEN 100
    ELSE IF n <= 2 * sum /\ sum <= 3 * n THEN 85
    ELSE IF 2 * sum < n THEN 50
    ELSE 70

(* variant: the early return is taken for exactly one session only *)
_score_breaks_single(sessions) ==
    IF Len(sessions) = 1 THEN 60
    ELSE LET breaks == BreaksLoop(sorted_sessions(sessions), 1, <<>>)
         IN  IF breaks = <<>> THEN 40
             ELSE BreakBands(SumSeq(breaks), Len(breaks))

_score_breaks(sessions) ==
    IF Len(sessions) <= 1 THEN 60
    ELSE LET breaks == BreaksLoop(sorted_sessions(sessions), 1, <<>>)
         IN  IF breaks = <<>> THEN 40
             ELSE BreakBands(SumSeq(breaks), Len(breaks))

----------------------------------------------------------------------------
(* analyzer.py: aggregator, tags, analyze *)

(* variant: the weights of timing and balance exchanged *)
_calculate_overall_score_swapped(scores) ==
    30 * scores.screen_time + 15 * scores.diversity + 20 * scores.timing
        + 25 * scores.balance + 10 * scores.breaks

(* weighted sum, in hundredths of a point *)
_calculate_overall_score(scores) ==
    30 * scores.screen_time + 15 * scores.diversity + 25 * scores.timing
        + 20 * scores.balance + 10 * scores.breaks

(* variant: the second test is an independent if, not an elif *)
TierTagsIndependent(overall) ==
    (IF overall >= 8000 THEN <<"balanced">> ELSE <<>>)
        \o (IF overall >= 6000 THEN <<"moderate">> ELSE <<"needs-attention">>)

TierTags(overall) ==
    IF overall >= 8000 THEN <<"balanced">>
    ELSE IF overall >= 6000 THEN <<"moderate">>
    ELSE <<"needs-attention">>

_generate_tags(d, overall, scores) ==
    LET total == Get(d, "total_screen_time_minutes", 0)
        apps == Get(d, "apps", <<>>)
        sessions == Get(d, "sessions", <<>>)
        volume == IF total > 10 * 60 THEN <<"heavy-user">>
                  ELSE IF total > 8 * 60 THEN <<"workaholic">>
                  ELSE IF total < 3 * 60 THEN <<"light-user">>
                  ELSE <<>>
        owl == IF scores.timing < 60 THEN <<"night-owl">> ELSE <<>>
        early == IF \E i \in 1..Len(sessions) : Get(sessions[i], "start_hour", 0) <= 6
                 THEN <<"early-bird">> ELSE <<>>
        category_minutes == CategoryMinutes(apps, EmptyDict)
        focused == IF total > 0
                      /\ Get(category_minutes, "productivity", 0) * 100 > 50 * total
                   THEN <<"focused">> ELSE <<>>
        butterfly == IF total > 0
                        /\ Get(category_minutes, "social", 0) * 100 > 40 * total
                     THEN <<"social-butterfly">> ELSE <<>>
        count == IF Len(apps) <= 2 THEN <<"single-minded">>
                 ELSE IF Len(apps) >= 10 THEN <<"multitasker">>
                 ELSE <<>>
        brk == IF scores.breaks >= 80 THEN <<"good-breaks">>
               ELSE IF scores.breaks < 50 THEN <<"marathon-sessions">>
               ELSE <<>>
    IN  TierTags(overall) \o volume \o owl \o early \o focused \o butterfly
            \o count \o brk

analyze(d) ==
    LET total_screen_time == Get(d, "total_screen_time_minutes", 0)
        apps == Get(d, "apps", <<>>)
        sessions == Get(d, "sessions", <<>>)
        scores == [screen_time |-> _score_screen_time(total_screen_time),
                   diversity |-> _score_app_diversity(apps),
                   timing |-> _score_usage_timing(sessions),
                   balance |-> _score_category_balance(apps),
                   breaks |-> _score_breaks(sessions)]
        overall_score == _calculate_overall_score(scores)
    IN  [overall_score |-> Round1(overall_score),
         breakdown |-> [screen_time |-> Round1(100 * scores.screen_time),
                        diversity |-> Round1(100 * scores.diversity),
                        timing |-> Round1(100 * scores.timing),
                        balance |-> Round1(100 * scores.balance),
                        breaks |-> Round1(100 * scores.breaks)],
         tags |-> _generate_tags(d, overall_score, scores),
         app_count |-> Len(apps),
         session_count |-> Len(sessions)]

(* variant: sessions.sort(key=...) sorts the caller's list in place *)
SessionsSortedInPlace(sessions) == sorted_sessions(sessions)

(* What the caller's session list holds after _score_breaks has run:       *)
(* sorted() builds a new list, the argument keeps its order.               *)
SessionsAfterScoreBreaks(sessions) == sessions

(* The caller's snapshot after analyze(data) has returned. *)
DataAfterAnalyze(d) ==
    IF "sessions" \in DOMAIN d
    THEN [d EXCEPT !.sessions = SessionsAfterScoreBreaks(d.sessions)]
    ELSE d

----------------------------------------------------------------------------
(* llm_insights.py: which path produces the insight, and its opening *)

LLMInit(use_mock_arg, has_key, import_ok) ==
    use_mock_arg \/ ~has_key \/ ~import_ok

MockOpening(score) ==
    IF score >= 800 THEN "strong digital habits"
    ELSE IF score >= 600 THEN "generally balanced usage"
    ELSE "patterns worth addressing"

_generate_mock_insight(analysis_result) ==
    [source |-> "mock", opening |-> MockOpening(analysis_result.overall_score)]

(* api_ok: whether the call to the external service returns *)
generate_insight(mock, analysis_result, api_ok) ==
    IF mock THEN _generate_mock_insight(analysis_result)
    ELSE IF api_ok THEN [source |-> "openai", opening |-> "service text"]
    ELSE _generate_mock_insight(analysis_result)

----------------------------------------------------------------------------
(* Inputs *)

ScreenTimeSteps == {4, 6, 8, 10, 12}

Totals == {0, 540} \cup {h * 60 : h \in ScreenTimeSteps}
              \cup {h * 60 + 1 : h \in ScreenTimeSteps}

Categories == {"productivity", "social", "other"}

AppMinutes == {0, 30, 60}

AppRecords == [category : Categories, minutes : AppMinutes]

(* hours inside and outside the late-night and early-morning windows *)
Hours == {1, 6, 23}

SessionRecords ==
    [start_hour : Hours, end_hour : Hours]
        \cup [start_hour : Hours, end_hour : Hours, minutes : {50}]

(* hours whose differences are 2, 3 and 5 *)
GapHours == {1, 4, 6}

HourRecords == [start_hour : GapHours, end_hour : GapHours]

(* the snapshot of test_analyzer.py (Scenario A) *)
ScenarioApps ==
    << [name |-> "VS Code", category |-> "productivity", minutes |-> 240],
       [name |-> "Chrome", category |-> "productivity", minutes |-> 120],
       [name |-> "Instagram", category |-> "social", minutes |-> 90],
       [name |-> "YouTube", category |-> "entertainment", minutes |-> 60],
       [name |-> "Slack", category |-> "productivity", minutes |-> 30] >>

ScenarioSessions ==
    << [start_hour |-> 9, end_hour |-> 12, minutes |-> 180],
       [start_hour |-> 14, end_hour |-> 18, minutes |-> 240],
       [start_hour |-> 22, end_hour |-> 23, minutes |-> 60] >>

test_data ==
    [date |-> "2025-11-28", total_screen_time_minutes |-> 540,
     apps |-> ScenarioApps, sessions |-> ScenarioSessions]

Snapshot(t, a, s) ==
    [total_screen_time_minutes |-> t, apps |-> a, sessions |-> s]

(* lists of n apps, for the app counts beyond the enumerated lists *)
ManyApps(n) ==
    [i \in 1..n |-> [category |-> (IF i % 2 = 0 THEN "productivity" ELSE "other"),
                     minutes |-> 30]]

AppCounts == {4, 8, 9, 10, 11}

(* one total per step of the screen-time ladder *)
StepTotals == {h * 60 : h \in ScreenTimeSteps} \cup {12 * 60 + 1}

AppSnapshots ==
    {Snapshot(t, a, s) : t \in StepTotals, a \in SeqsUpTo(AppRecords, MaxApps),
                         s \in {<<>>, ScenarioSessions}}

SessionSnapshots ==
    {Snapshot(0, <<>>, s) : s \in SeqsUpTo(SessionRecords, MaxSessions)}
    \cup {Snapshot(540, ScenarioApps, s) : s \in SeqsUpTo(SessionRecords, MaxSessions)}

GapSnapshots ==
    {Snapshot(0, <<>>, s) : s \in SeqsUpTo(HourRecords, MaxGapSessions)}

CountSnapshots ==
    {Snapshot(t, ManyApps(n), ScenarioSessions) : t \in {0, 721}, n \in AppCounts}

(* snapshots with absent keys *)
PartialSnapshots ==
    {[date |-> "2025-11-28"]}
    \cup {[total_screen_time_minutes |-> t] : t \in Totals}
    \cup {[total_screen_time_minutes |-> t, apps |-> <<>>] : t \in Totals}
    \cup {[total_screen_time_minutes |-> t, sessions |-> <<>>] : t \in Totals}
    \cup {[apps |-> <<[minutes |-> 60]>>, sessions |-> <<[start_hour |-> 4]>>]}

Snapshots ==
    {test_data} \cup AppSnapshots \cup SessionSnapshots \cup GapSnapshots
        \cup CountSnapshots \cup PartialSnapshots

NoResult == [overall_score |-> 0, breakdown |-> <<>>, tags |-> <<>>]

NoInsight == [source |-> "none", opening |-> "none"]

NoBody == [kind |-> "none"]

----------------------------------------------------------------------------
(* test_analyzer.py: analyze one snapshot, then generate the insight *)

Init ==
    /\ data \in Snapshots
    /\ max_score = 100
    /\ use_mock = LLMInit(TRUE, FALSE, TRUE)
    /\ result = NoResult
    /\ insight = NoInsight
    /\ pc = "start"
    /\ body = NoBody
    /\ status = 0
    /\ invoked = <<>>

Analyze ==
    /\ pc \in {"start", "analyzed"}
    /\ result' = analyze(data)
    /\ data' = DataAfterAnalyze(data)
    /\ pc' = "analyzed"
    /\ UNCHANGED <<max_score, use_mock, insight, body, status, invoked>>

GenerateInsight ==
    /\ pc = "analyzed"
    /\ \E api_ok \in BOOLEAN :
           insight' = generate_insight(use_mock, result, api_ok)
    /\ pc' = "done"
    /\ UNCHANGED <<data, max_score, use_mock, result, body, status, invoked>>

Next == Analyze \/ GenerateInsight

Spec == Init /\ [][Next]_vars

----------------------------------------------------------------------------
(* app.py: the /analyze and /health endpoints *)

NoneValue == [is_none |-> TRUE]

(* request.get_json(): a JSON body parses to its value; an unparsable body *)
(* raises BadRequest; without a JSON body the framework either returns     *)
(* None or raises, depending on its version (strict).                      *)
get_json(b, strict) ==
    IF b.kind = "json" THEN [raised |-> FALSE, value |-> b.value]
    ELSE IF b.kind = "absent" /\ ~strict THEN [raised |-> FALSE, value |-> NoneValue]
    ELSE [raised |-> TRUE, value |-> NoneValue]

(* Python truth value of the parsed body: None and {} are false *)
Truthy(v) == v # NoneValue /\ DOMAIN v # {}

HttpSnapshots ==
    {test_data} \cup CountSnapshots \cup PartialSnapshots
        \cup {Snapshot(601, <<a>>, <<s>>) : a \in AppRecords, s \in HourRecords}

Bodies ==
    {[kind |-> "absent"], [kind |-> "unparsable"], [kind |-> "json", value |-> EmptyDict]}
    \cup {[kind |-> "json", value |-> d] : d \in HttpSnapshots}

InitHttp ==
    /\ data = NoneValue
    /\ max_score = 100
    /\ \E has_key \in BOOLEAN, import_ok \in BOOLEAN :
           use_mock = LLMInit(FALSE, has_key, import_ok)
    /\ result = NoResult
    /\ insight = NoInsight
    /\ pc = "serving"
    /\ body = NoBody
    /\ status = 0
    /\ invoked = <<>>

(* the handler's three ways out: except -> 500, not data -> 400, 200 *)
PostAnalyze ==
    /\ pc = "serving"
    /\ \E b \in Bodies, strict \in BOOLEAN, api_ok \in BOOLEAN :
        LET parsed == get_json(b, strict)
        IN  /\ body' = b
            /\ IF parsed.raised
               THEN /\ status' = 500
                    /\ data' = NoneValue
                    /\ result' = NoResult
                    /\ insight' = NoInsight
                    /\ invoked' = <<>>
               ELSE IF ~Truthy(parsed.value)
               THEN /\ status' = 400
                    /\ data' = parsed.value
                    /\ result' = NoResult
                    /\ insight' = NoInsight
                    /\ invoked' = <<>>
               ELSE /\ status' = 200
                    /\ data' = DataAfterAnalyze(parsed.value)
                    /\ result' = analyze(parsed.value)
                    /\ insight' = generate_insight(use_mock, analyze(parsed.value), api_ok)
                    /\ invoked' = <<"analyze", "generate_insight">>
    /\ UNCHANGED <<max_score, use_mock, pc>>

GetHealth ==
    /\ pc = "serving"
    /\ body' = NoBody
    /\ status' = 200
    /\ data' = NoneValue
    /\ result' = NoResult
    /\ insight' = NoInsight
    /\ invoked' = <<>>
    /\ UNCHANGED <<max_score, use_mock, pc>>

NextHttp == PostAnalyze \/ GetHealth

SpecHttp == InitHttp /\ [][NextHttp]_vars

----------------------------------------------------------------------------
(* Properties *)

HasResult ==
    \/ pc \in {"analyzed", "done"}
    \/ pc = "serving" /\ status = 200 /\ invoked # <<>>

SubScoreNames == {"screen_time", "diversity", "timing", "balance", "breaks"}

TierLabels == {"balanced", "moderate", "needs-attention"}

HasTag(t) == \E i \in 1..Len(result.tags) : result.tags[i] = t

TagCount(T) == Cardinality({i \in 1..Len(result.tags) : result.tags[i] \in T})

InputApps == Get(data, "apps", <<>>)

InputSessions == Get(data, "sessions", <<>>)

InputTotal == Get(data, "total_screen_time_minutes", 0)

StartOf(ss, i) == Get(ss[i], "start_hour", 0)

EndOf(ss, i) == Get(ss[i], "end_hour", 0)

(* the weighted overall score recomputed from the reported breakdown,      *)
(* in thousandths of a point                                               *)
WeightedOverall ==
    30 * result.breakdown.screen_time + 15 * result.breakdown.diversity
        + 25 * result.breakdown.timing + 20 * result.breakdown.balance
        + 10 * result.breakdown.breaks

(* C1: for every snapshot the reported overall_score and each of the five  *)
(* breakdown entries lie in [0,100] (0..1000 tenths).                      *)
C1_ScoresInRange ==
    HasResult =>
        /\ result.overall_score \in 0..1000
        /\ DOMAIN result.breakdown = SubScoreNames
        /\ \A k \in SubScoreNames : result.breakdown[k] \in 0..1000

(* a snapshot with a session whose end_hour is before its start_hour and   *)
(* with apps has been analysed                                             *)
C1_Witness ==
    /\ pc = "analyzed"
    /\ InputApps # <<>>
    /\ \E i \in 1..Len(InputSessions) :
           /\ {"start_hour", "end_hour"} \subseteq DOMAIN InputSessions[i]
           /\ EndOf(InputSessions, i) < StartOf(InputSessions, i)
           /\ "minutes" \notin DOMAIN InputSessions[i]

(* C2: the tags hold exactly one tier label, in exactly one occurrence:    *)
(* "balanced" when the weighted overall is >= 80, "moderate" when it is    *)
(* >= 60 and < 80, "needs-attention" otherwise.                            *)
C2_ExactlyOneTier ==
    HasResult =>
        /\ TagCount(TierLabels) = 1
        /\ WeightedOverall >= 80000 => HasTag("balanced")
        /\ (WeightedOverall >= 60000 /\ WeightedOverall < 80000) => HasTag("moderate")
        /\ WeightedOverall < 60000 => HasTag("needs-attention")

(* a snapshot whose weighted overall is exactly 80 has been analysed *)
C2_Witness ==
    /\ pc = "analyzed"
    /\ WeightedOverall = 80000
    /\ HasTag("balanced")

(* C3 as stated: Scenario A yields screen_time 70, diversity 100, timing   *)
(* 85, balance 70, breaks 85, overall 79.8 and the tier "moderate".        *)
C3_ScenarioA_AsStated ==
    (HasResult /\ data = test_data) =>
        /\ result.breakdown = [screen_time |-> 700, diversity |-> 1000,
                               timing |-> 850, balance |-> 700, breaks |-> 850]
        /\ result.overall_score = 798
        /\ HasTag("moderate")

(* C3 amended: Scenario A (540 minutes, 9 h) yields screen_time 50,        *)
(* diversity 100, timing 85, balance 70, breaks 85, a weighted overall of  *)
(* 73.75 reported as 73.8, and the tier "moderate".                        *)
C3_ScenarioA ==
    (HasResult /\ data = test_data) =>
        /\ result.breakdown = [screen_time |-> 500, diversity |-> 1000,
                               timing |-> 850, balance |-> 700, breaks |-> 850]
        /\ WeightedOverall = 73750
        /\ result.overall_score = 738
        /\ HasTag("moderate")
        /\ TagCount(TierLabels) = 1

(* Scenario A has been analysed *)
C3_Witness ==
    /\ pc = "analyzed"
    /\ data = test_data
    /\ result.app_count = 5
    /\ result.session_count = 3

(* C4: with empty or absent apps and sessions the analysis returns         *)
(* diversity 50, timing 50, balance 50, breaks 60; if the total is also 0, *)
(* screen_time is 100, overall_score 66.0 and the tier "moderate".         *)
C4_EmptyDefaults ==
    (HasResult /\ InputApps = <<>> /\ InputSessions = <<>>) =>
        /\ result.breakdown.diversity = 500
        /\ result.breakdown.timing = 500
        /\ result.breakdown.balance = 500
        /\ result.breakdown.breaks = 600
        /\ InputTotal = 0 =>
              /\ result.breakdown.screen_time = 1000
              /\ result.overall_score = 660
              /\ HasTag("moderate")
              /\ TagCount(TierLabels) = 1

(* a snapshot with no apps key, no sessions key and total 0 was analysed *)
C4_Witness ==
    /\ pc = "analyzed"
    /\ DOMAIN data = {"total_screen_time_minutes"}
    /\ data.total_screen_time_minutes = 0
    /\ result.app_count = 0
    /\ result.session_count = 0

(* the snapshot that differs from d only in total_screen_time_minutes *)
WithTotal(d, m) ==
    [k \in DOMAIN d \cup {"total_screen_time_minutes"} |->
        IF k = "total_screen_time_minutes" THEN m ELSE d[k]]

(* C5: for snapshots that differ only in total_screen_time_minutes, a      *)
(* larger total never has a larger screen_time entry, and the steps are    *)
(* <=240 -> 100, <=360 -> 85, <=480 -> 70, <=600 -> 50, <=720 -> 30,       *)
(* else 10.                                                                *)
C5_ScreenTimeMonotone ==
    HasResult =>
        /\ \A m2 \in Totals :
              InputTotal <= m2 =>
                  analyze(WithTotal(data, m2)).breakdown.screen_time
                      <= result.breakdown.screen_time
        /\ result.breakdown.screen_time =
              (IF InputTotal <= 240 THEN 1000
               ELSE IF InputTotal <= 360 THEN 850
               ELSE IF InputTotal <= 480 THEN 700
               ELSE IF InputTotal <= 600 THEN 500
               ELSE IF InputTotal <= 720 THEN 300
               ELSE 100)

(* a snapshot on an inclusive step boundary was analysed, and a larger     *)
(* total has a strictly smaller entry                                      *)
C5_Witness ==
    /\ pc = "analyzed"
    /\ InputTotal = 480
    /\ result.breakdown.screen_time = 700
    /\ analyze(WithTotal(data, 481)).breakdown.screen_time = 500

(* C6: no step changes the caller's snapshot (total, apps, sessions and    *)
(* their order) or the analyzer's max_score.                               *)
C6_InputUnchanged == [][data' = data /\ max_score' = max_score]_vars

(* a snapshot whose sessions are not in start_hour order was analysed *)
C6_Witness ==
    /\ pc = "analyzed"
    /\ Len(InputSessions) >= 2
    /\ StartOf(InputSessions, 1) > StartOf(InputSessions, 2)
    /\ max_score = 100

(* C7 as stated: a request with an absent body, an empty JSON object or    *)
(* unparsable JSON is answered 400 and neither analyze nor the insight     *)
(* generator is invoked for it.                                            *)
C7_MalformedRejected ==
    (\/ body.kind \in {"absent", "unparsable"}
     \/ body.kind = "json" /\ DOMAIN body.value = {}) =>
        /\ status = 400
        /\ invoked = <<>>

(* C8, stated without the scorer's loops: the sessions in ascending        *)
(* start_hour order (input order among equal start_hour), the kept gaps    *)
(* and the score read off the average kept gap.                            *)
RankOf(ss, i) ==
    1 + Cardinality({j \in 1..Len(ss) :
                        \/ StartOf(ss, j) < StartOf(ss, i)
                        \/ StartOf(ss, j) = StartOf(ss, i) /\ j < i})

AtRank(ss, r) == CHOOSE i \in 1..Len(ss) : RankOf(ss, i) = r

GapAfter(ss, r) == StartOf(ss, AtRank(ss, r + 1)) - EndOf(ss, AtRank(ss, r))

KeptGaps(ss) == {r \in 1..(Len(ss) - 1) : GapAfter(ss, r) > 0}

RECURSIVE GapTotal(_, _)
GapTotal(ss, R) ==
    IF R = {} THEN 0
    ELSE LET r == CHOOSE x \in R : TRUE
         IN  GapAfter(ss, r) + GapTotal(ss, R \ {r})

ExpectedBreaks(ss) ==
    IF Len(ss) <= 1 THEN 60
    ELSE LET n == Cardinality(KeptGaps(ss))
             sum == GapTotal(ss, KeptGaps(ss))
         IN  IF n = 0 THEN 40
             ELSE IF n <= sum /\ sum <= 2 * n THEN 100
             ELSE IF n <= 2 * sum /\ sum <= 3 * n THEN 85
             ELSE IF 2 * sum < n THEN 50
             ELSE 70

Perms(n) == {p \in [1..n -> 1..n] : \A i, j \in 1..n : i # j => p[i] # p[j]}

DistinctStarts(ss) ==
    \A i, j \in 1..Len(ss) : i # j => StartOf(ss, i) # StartOf(ss, j)

(* C8: the breaks entry is 60 for at most one session; otherwise it is 40  *)
(* when no gap between sessions adjacent in start_hour order is positive,  *)
(* and else follows the average positive gap ([1,2] -> 100, then [0.5,3]   *)
(* -> 85, then < 0.5 -> 50, else 70); reordering sessions with distinct    *)
(* start_hour does not change it.                                          *)
C8_BreakQuality ==
    HasResult =>
        /\ result.breakdown.breaks = 10 * ExpectedBreaks(InputSessions)
        /\ DistinctStarts(InputSessions) =>
              \A p \in Perms(Len(InputSessions)) :
                  10 * _score_breaks([i \in 1..Len(InputSessions) |-> InputSessions[p[i]]])
                      = result.breakdown.breaks

(* three sessions given out of start_hour order, two positive gaps whose   *)
(* average 2.5 lies outside [1,2] and inside [0.5,3]                       *)
C8_Witness ==
    /\ pc = "analyzed"
    /\ Len(InputSessions) = 3
    /\ DistinctStarts(InputSessions)
    /\ StartOf(InputSessions, 1) > StartOf(InputSessions, 2)
    /\ Cardinality(KeptGaps(InputSessions)) = 2
    /\ GapTotal(InputSessions, KeptGaps(InputSessions)) = 5
    /\ result.breakdown.breaks = 850

(* C9: "night-owl" is present exactly when the session list is empty or    *)
(* the late-night accumulator exceeds 120 while the early-morning one      *)
(* exceeds 60; for a non-empty list timing is one of 100, 90, 85, 75, 65,  *)
(* 60, 50.                                                                 *)
C9_NightOwl ==
    HasResult =>
        LET acc == TimingLoop(InputSessions, 0, 0)
        IN  /\ HasTag("night-owl") <=>
                  (InputSessions = <<>> \/ (acc[1] > 120 /\ acc[2] > 60))
            /\ InputSessions # <<>> =>
                  result.breakdown.timing \in {1000, 900, 850, 750, 650, 600, 500}

(* sessions with more than 120 late-night minutes and at most 60           *)
(* early-morning minutes: timing 60 and no "night-owl"                     *)
C9_Witness ==
    /\ pc = "analyzed"
    /\ InputSessions # <<>>
    /\ TimingLoop(InputSessions, 0, 0)[1] > 120
    /\ TimingLoop(InputSessions, 0, 0)[2] <= 60
    /\ result.breakdown.timing = 600
    /\ ~HasTag("night-owl")

(* C10: the reported overall_score is >= 80 exactly when "balanced" is     *)
(* present and in [60,80) exactly when "moderate" is present, and the      *)
(* local fallback insight opens with the sentence of the tier tag.         *)
C10_ReportedTierAgrees ==
    HasResult =>
        /\ result.overall_score >= 800 <=> HasTag("balanced")
        /\ (result.overall_score >= 600 /\ result.overall_score < 800)
              <=> HasTag("moderate")
        /\ (pc = "done" /\ insight.source = "mock") =>
              insight.opening =
                  (IF HasTag("balanced") THEN "strong digital habits"
                   ELSE IF HasTag("moderate") THEN "generally balanced usage"
                   ELSE "patterns worth addressing")

(* a snapshot whose unrounded overall is 79.75, reported as 79.8, got its  *)
(* fallback insight                                                        *)
C10_Witness ==
    /\ pc = "done"
    /\ insight.source = "mock"
    /\ WeightedOverall = 79750
    /\ result.overall_score = 798
    /\ HasTag("moderate")

====
